---- MODULE Spec2Model ----
(***************************************************************************)
(* State-machine model of src/audio_unit/mod.rs: the AudioUnit facade      *)
(* (construction, initialize/uninitialize, start/stop, typed property      *)
(* get/set, callback slots, Drop), the native unit it drives, and the      *)
(* native real-time audio thread that runs the registered trampolines.     *)
(***************************************************************************)
EXTENDS Integers, Sequences, FiniteSets, TLC

\* ---------------------------------------------------------------- bounds
\* Byte values the model exercises: 0..MaxByte.
MaxByte == 1
\* Number of callback wrappers (Box allocations) the owner may make.
MaxWrappers == 2
\* Channel counts of the stream formats the model exercises: 1..MaxChannels.
MaxChannels == 2

\* ------------------------------------------------------- program values
\* Option::None of the two callback slots, and the null user-data pointer.
None == 0
\* enum Scope: Global = 0, Input = 1 (the two scopes the model exercises)
Scope_Global == 0
Scope_Input == 1
\* enum Element
Element_Output == 0
Element_Input == 1

Scopes == {Scope_Global, Scope_Input}
Elements == {Element_Output, Element_Input}
\* Property ids (u32 in the program): a property that defines a default
\* value and one that does not.
PropIds == {"WithDefault", "NoDefault"}
Bytes == 0..MaxByte
Wrappers == 1..MaxWrappers

\* Requested unit types: one with a native subtype mapping, one without.
Types == {"Mapped", "Unmapped"}

VARIABLES
    pc,                     \* position of the owning thread
    life,                   \* lifecycle state of the native instance
    props,                  \* native property table: triple -> bytes or <<>> (no value)
    maybe_render_callback,  \* AudioUnit.maybe_render_callback: None or a wrapper
    maybe_input_callback,   \* AudioUnit.maybe_input_callback: None or wrapper + buffer list
    allocated,              \* number of wrappers allocated so far
    frees,                  \* wrapper -> number of times it was released
    freedHow,               \* wrapper -> how it was released
    renderReg,              \* native render-callback user-data pointer
    inputReg,               \* native input-callback user-data pointer
    inflight,               \* wrapper the audio thread is running through, or None
    calls,                  \* native calls and releases issued by the current operation
    last,                   \* the operation the owner ran last and what it returned
    disposeCalls,           \* number of AudioComponentInstanceDispose calls issued
    usedAfterDispose,       \* a native call was made on the handle after disposal
    setByCaller,            \* triple -> value the caller last set successfully, or <<>>
    everStarted             \* the unit has been in the Started state

vars == <<pc, life, props, maybe_render_callback, maybe_input_callback, allocated,
          frees, freedHow, renderReg, inputReg, inflight, calls, last,
          disposeCalls, usedAfterDispose, setByCaller, everStarted>>

cbVars == <<maybe_render_callback, maybe_input_callback, allocated, frees, freedHow,
            renderReg, inputReg>>

\* ------------------------------------------------------ the native layer
\* What the foreign calls do to the native instance.  A call that reports an
\* error has no effect; `fault` stands for any failure the native layer may
\* report for reasons of its own.

Triples == PropIds \X Scopes \X Elements
HasDefault(id) == id = "WithDefault"
DefaultValue == <<0>>
\* Every property of the modelled unit is NativeSize bytes wide.
NativeSize == Len(DefaultValue)
\* size_of::<T>() of the caller's type: the property's width, or wider.
SizesT == {NativeSize, NativeSize + 1}
InitialProps(supported) ==
    [t \in supported |-> IF HasDefault(t[1]) THEN DefaultValue ELSE <<>>]

Gone(l) == l \in {"NoInstance", "Disposed"}

AudioUnitInitialize_Status(l, fault) ==
    IF fault \/ Gone(l) THEN "err" ELSE "noErr"
AudioUnitInitialize_Life(l, st) ==
    IF st = "noErr" /\ l = "Uninitialized" THEN "Initialized" ELSE l

AudioUnitUninitialize_Status(l, fault) ==
    IF fault \/ Gone(l) THEN "err" ELSE "noErr"
AudioUnitUninitialize_Life(l, st) ==
    IF st = "noErr" THEN "Uninitialized" ELSE l

AudioOutputUnitStart_Status(l, fault) ==
    IF fault \/ Gone(l) \/ l = "Uninitialized" THEN "err" ELSE "noErr"
AudioOutputUnitStart_Life(l, st) ==
    IF st = "noErr" THEN "Started" ELSE l

AudioOutputUnitStop_Status(l, fault) ==
    IF fault \/ Gone(l) THEN "err" ELSE "noErr"
AudioOutputUnitStop_Life(l, st) ==
    IF st = "noErr" /\ l = "Started" THEN "Initialized" ELSE l

AudioComponentInstanceDispose_Status(l, fault) ==
    IF fault \/ Gone(l) THEN "err" ELSE "noErr"
AudioComponentInstanceDispose_Life(l, st) ==
    IF st = "noErr" THEN "Disposed" ELSE l

\* A native call that halts the unit returns success only once the audio
\* thread has left the trampoline (start/stop bracketing is the
\* serialization boundary).
Quiesced(l, l2) == (l = "Started" /\ l2 # "Started") => inflight = None

\* AudioUnitSetProperty(au, id, scope, elem, data_ptr, size).  A null pointer
\* with size 0 clears the property, which works only for properties that do
\* not have a default value.
AudioUnitSetProperty_Status(table, l, a, fault) ==
    LET t == <<a.id, a.scope, a.elem>> IN
    IF fault \/ Gone(l) \/ t \notin DOMAIN table THEN "err"
    ELSE IF a.ptrNull THEN (IF a.size = 0 /\ ~HasDefault(a.id) THEN "noErr" ELSE "err")
    ELSE IF a.size = NativeSize THEN "noErr" ELSE "err"
AudioUnitSetProperty_Table(table, a, st) ==
    LET t == <<a.id, a.scope, a.elem>> IN
    IF st # "noErr" THEN table
    ELSE IF a.ptrNull THEN [table EXCEPT ![t] = <<>>]
    ELSE [table EXCEPT ![t] = SubSeq(a.data, 1, a.size)]

\* AudioUnitGetProperty(au, id, scope, elem, data_ptr, size_ptr): writes the
\* property's bytes into the caller's storage and its size into *size_ptr.
AudioUnitGetProperty_Status(table, l, a, fault) ==
    LET t == <<a.id, a.scope, a.elem>> IN
    IF fault \/ Gone(l) \/ t \notin DOMAIN table THEN "err"
    ELSE IF table[t] = <<>> \/ a.size < Len(table[t]) THEN "err"
    ELSE "noErr"
AudioUnitGetProperty_Written(table, a, st) ==
    IF st = "noErr" THEN Len(table[<<a.id, a.scope, a.elem>>]) ELSE 0
AudioUnitGetProperty_Data(table, a, st, storage) ==
    LET n == AudioUnitGetProperty_Written(table, a, st) IN
    [i \in 1..a.size |->
        IF i <= n THEN table[<<a.id, a.scope, a.elem>>][i] ELSE storage[i]]

\* --------------------------------------------------------- error domain
\* Error::from_os_status: success for the zero status, an error otherwise.
from_os_status(st) == st = "noErr"
\* A variant of try_os_status! that drops the status.
try_os_status_Ignore(st) == TRUE
\* try_os_status!(expr): Error::from_os_status(expr)? -- the operation goes
\* on iff the status converts to Ok.
try_os_status(st) == from_os_status(st)

\* Type::as_subtype_u32: Some(u) for a type with a native subtype mapping.
as_subtype_u32(ty) == IF ty = "Mapped" THEN "Some" ELSE "None"

\* What an operation of the facade returned.
Ret(op, st, ok, err) ==
    [op |-> op, status |-> st, ok |-> ok, err |-> err, arg |-> "",
     id |-> "", scope |-> 0, elem |-> 0, present |-> FALSE, sizeT |-> 0,
     ptrNull |-> FALSE, size |-> 0, written |-> 0, value |-> <<>>, before |-> ""]
NativeRet(op, st) ==
    Ret(op, st, try_os_status(st), IF try_os_status(st) THEN "" ELSE "Native")

NoteUse(l) == usedAfterDispose \/ l = "Disposed"

Call(fn, st) == [fn |-> fn, st |-> st]

\* ------------------------------------------------------- construction
\* Variants of new_with_flags, used to test the construction properties: one
\* that looks the component up before it maps the subtype,
new_with_flags_DiscoverFirst(ty, flags, mask, found, instFault, initFault) ==
    [calls |-> <<Call("AudioComponentFindNext", IF found THEN "noErr" ELSE "err")>>,
     life |-> "NoInstance", made |-> FALSE,
     ret |-> [Ret("new", "", FALSE,
                  IF as_subtype_u32(ty) = "None" THEN "NoKnownSubtype"
                  ELSE "NoMatchingDefaultAudioUnitFound") EXCEPT !.arg = ty],
     maybe_render_callback |-> None, maybe_input_callback |-> None]
\* and one that returns a facade whose render slot is already taken.
new_with_flags_SlotTaken(ty, flags, mask, found, instFault, initFault) ==
    [calls |-> <<Call("AudioComponentFindNext", "noErr"),
                 Call("AudioComponentInstanceNew", "noErr"),
                 Call("AudioUnitInitialize", "noErr")>>,
     life |-> "Initialized", made |-> TRUE,
     ret |-> [NativeRet("new", "noErr") EXCEPT !.arg = ty],
     maybe_render_callback |-> MaxWrappers, maybe_input_callback |-> None]

\* one that goes on to the next native call after a failed one,
new_with_flags_KeepGoing(ty, flags, mask, found, instFault, initFault) ==
    LET findSt == IF found THEN "noErr" ELSE "err"
        instSt == IF instFault THEN "err" ELSE "noErr"
        initSt == AudioUnitInitialize_Status("Uninitialized", initFault)
        good   == found /\ try_os_status(instSt) /\ try_os_status(initSt)
    IN
    [calls |-> <<Call("AudioComponentFindNext", findSt),
                 Call("AudioComponentInstanceNew", instSt),
                 Call("AudioUnitInitialize", initSt)>>,
     life |-> IF good THEN "Initialized" ELSE "NoInstance", made |-> good,
     ret |-> [(IF ~found THEN Ret("new", "", FALSE, "NoMatchingDefaultAudioUnitFound")
               ELSE IF ~try_os_status(instSt) THEN NativeRet("new", instSt)
               ELSE NativeRet("new", initSt)) EXCEPT !.arg = ty],
     maybe_render_callback |-> None, maybe_input_callback |-> None]
\* and one that returns the instance without initializing it.
new_with_flags_NoInitialize(ty, flags, mask, found, instFault, initFault) ==
    [calls |-> <<Call("AudioComponentFindNext", "noErr"),
                 Call("AudioComponentInstanceNew", "noErr")>>,
     life |-> "Uninitialized", made |-> TRUE,
     ret |-> [NativeRet("new", "noErr") EXCEPT !.arg = ty],
     maybe_render_callback |-> None, maybe_input_callback |-> None]

\* AudioUnit::new_with_flags(ty, flags, mask).  `found` is whether
\* AudioComponentFindNext returns a component; instFault / initFault are the
\* native layer's own failures of AudioComponentInstanceNew / AudioUnitInitialize.
new_with_flags(ty, flags, mask, found, instFault, initFault) ==
    LET find    == Call("AudioComponentFindNext", IF found THEN "noErr" ELSE "err")
        instSt  == IF instFault THEN "err" ELSE "noErr"
        inst    == Call("AudioComponentInstanceNew", instSt)
        initSt  == AudioUnitInitialize_Status("Uninitialized", initFault)
        init    == Call("AudioUnitInitialize", initSt)
        Err(cs, l, ret) ==
            [calls |-> cs, life |-> l, made |-> FALSE, ret |-> [ret EXCEPT !.arg = ty],
             maybe_render_callback |-> None, maybe_input_callback |-> None]
    IN
    IF as_subtype_u32(ty) = "None" THEN
        Err(<<>>, "NoInstance", Ret("new", "", FALSE, "NoKnownSubtype"))
    ELSE IF ~found THEN
        Err(<<find>>, "NoInstance",
            Ret("new", "", FALSE, "NoMatchingDefaultAudioUnitFound"))
    ELSE IF ~try_os_status(instSt) THEN
        Err(<<find, inst>>, "NoInstance", NativeRet("new", instSt))
    ELSE IF ~try_os_status(initSt) THEN
        Err(<<find, inst, init>>, AudioUnitInitialize_Life("Uninitialized", initSt),
            NativeRet("new", initSt))
    ELSE
        [calls |-> <<find, inst, init>>,
         life |-> AudioUnitInitialize_Life("Uninitialized", initSt), made |-> TRUE,
         ret |-> [NativeRet("new", initSt) EXCEPT !.arg = ty],
         maybe_render_callback |-> None, maybe_input_callback |-> None]

\* AudioUnit::new(ty) == AudioUnit::new_with_flags(ty, 0, 0)
new(ty, found, instFault, initFault) ==
    new_with_flags(ty, 0, 0, found, instFault, initFault)

Construct(r) ==
    /\ pc = "start"
    /\ pc' = IF r.made THEN "alive" ELSE "failed"
    /\ life' = r.life
    /\ calls' = r.calls
    /\ last' = r.ret
    /\ maybe_render_callback' = r.maybe_render_callback
    /\ maybe_input_callback' = r.maybe_input_callback
    /\ UNCHANGED <<everStarted, props, allocated, frees, freedHow, renderReg, inputReg, inflight,
                   disposeCalls, usedAfterDispose, setByCaller>>

New ==
    \E ty \in Types, found \in BOOLEAN, instFault \in BOOLEAN, initFault \in BOOLEAN :
        Construct(new(ty, found, instFault, initFault))

NewWithFlags ==
    \E ty \in Types, flags \in {0, 1}, found \in BOOLEAN,
       instFault \in BOOLEAN, initFault \in BOOLEAN :
        Construct(new_with_flags(ty, flags, flags, found, instFault, initFault))

\* ------------------------------------------------- lifecycle operations
\* Each forwards one native call on self.instance and converts its status;
\* `before` records the state of the unit the call was made on.
\* A start that consults the state first and skips the native call on a
\* running unit, used to test the forwarding property.
start_OnlyIfStopped(l, fault) ==
    IF l = "Started" THEN
        [calls |-> <<>>, life |-> l, ret |-> [NativeRet("start", "noErr") EXCEPT !.before = l]]
    ELSE
        [calls |-> <<Call("AudioOutputUnitStart", AudioOutputUnitStart_Status(l, fault))>>,
         life |-> AudioOutputUnitStart_Life(l, AudioOutputUnitStart_Status(l, fault)),
         ret |-> [NativeRet("start", AudioOutputUnitStart_Status(l, fault))
                     EXCEPT !.before = l]]

initialize(l, fault) ==
    LET st == AudioUnitInitialize_Status(l, fault) IN
    [calls |-> <<Call("AudioUnitInitialize", st)>>,
     life |-> AudioUnitInitialize_Life(l, st), ret |-> [NativeRet("initialize", st) EXCEPT !.before = l]]

uninitialize(l, fault) ==
    LET st == AudioUnitUninitialize_Status(l, fault) IN
    [calls |-> <<Call("AudioUnitUninitialize", st)>>,
     life |-> AudioUnitUninitialize_Life(l, st), ret |-> [NativeRet("uninitialize", st) EXCEPT !.before = l]]

start(l, fault) ==
    LET st == AudioOutputUnitStart_Status(l, fault) IN
    [calls |-> <<Call("AudioOutputUnitStart", st)>>,
     life |-> AudioOutputUnitStart_Life(l, st), ret |-> [NativeRet("start", st) EXCEPT !.before = l]]

stop(l, fault) ==
    LET st == AudioOutputUnitStop_Status(l, fault) IN
    [calls |-> <<Call("AudioOutputUnitStop", st)>>,
     life |-> AudioOutputUnitStop_Life(l, st), ret |-> [NativeRet("stop", st) EXCEPT !.before = l]]

Lifecycle(r) ==
    /\ pc = "alive"
    /\ Quiesced(life, r.life)
    /\ life' = r.life
    /\ calls' = r.calls
    /\ last' = r.ret
    /\ usedAfterDispose' = NoteUse(life)
    /\ everStarted' = (everStarted \/ r.life = "Started")
    /\ UNCHANGED <<pc, props, cbVars, inflight, disposeCalls, setByCaller>>

Initialize == \E fault \in BOOLEAN : Lifecycle(initialize(life, fault))
Uninitialize == \E fault \in BOOLEAN : Lifecycle(uninitialize(life, fault))
Start == \E fault \in BOOLEAN : Lifecycle(start(life, fault))
Stop == \E fault \in BOOLEAN : Lifecycle(stop(life, fault))

\* ----------------------------------------------------- property access
\* Option<&T>: <<>> is None, a sequence of size_of::<T>() bytes is Some(&v).
NoData == <<>>
ValuesOf(sizeT) == [1..sizeT -> Bytes]

\* Variants of set_property, used to test the accessor properties: one that
\* hands the native setter a size for an absent value,
set_property_SizedNull(id, scope, elem, maybe_data) ==
    [id |-> id, scope |-> scope, elem |-> elem,
     ptrNull |-> (maybe_data = NoData),
     size |-> IF maybe_data = NoData THEN NativeSize ELSE Len(maybe_data),
     data |-> maybe_data]
\* and one that drops the element and always addresses Element::Output.
set_property_ElementOutput(id, scope, elem, maybe_data) ==
    [id |-> id, scope |-> scope, elem |-> Element_Output,
     ptrNull |-> (maybe_data = NoData),
     size |-> IF maybe_data = NoData THEN 0 ELSE Len(maybe_data),
     data |-> maybe_data]

\* set_property(au, id, scope, elem, maybe_data): the arguments it hands to
\* AudioUnitSetProperty.
set_property(id, scope, elem, maybe_data) ==
    [id |-> id, scope |-> scope, elem |-> elem,
     ptrNull |-> (maybe_data = NoData),
     size |-> IF maybe_data = NoData THEN 0 ELSE Len(maybe_data),
     data |-> maybe_data]

\* The storage get_property declares: MaybeUninit::<T>::uninit(), whose
\* bytes hold any value until the native layer writes them.
uninit(sizeT) == ValuesOf(sizeT)

\* get_property::<T>(au, id, scope, elem): the arguments it hands to
\* AudioUnitGetProperty; size is size_of::<T>().
get_property(id, scope, elem, sizeT) ==
    [id |-> id, scope |-> scope, elem |-> elem, ptrNull |-> FALSE, size |-> sizeT]

\* AudioUnit::set_property
SetProperty(id, scope, elem, maybe_data, fault) ==
    LET a  == set_property(id, scope, elem, maybe_data)
        st == AudioUnitSetProperty_Status(props, life, a, fault)
    IN
    /\ pc = "alive"
    /\ props' = AudioUnitSetProperty_Table(props, a, st)
    /\ calls' = <<Call("AudioUnitSetProperty", st)>>
    /\ last' = [NativeRet("set_property", st) EXCEPT
                    !.id = id, !.scope = scope, !.elem = elem,
                    !.present = (maybe_data # NoData), !.sizeT = Len(maybe_data),
                    !.ptrNull = a.ptrNull, !.size = a.size]
    /\ setByCaller' = IF try_os_status(st)
                      THEN [setByCaller EXCEPT ![<<id, scope, elem>>] = maybe_data]
                      ELSE setByCaller
    /\ usedAfterDispose' = NoteUse(life)
    /\ UNCHANGED <<everStarted, pc, life, cbVars, inflight, disposeCalls>>

\* AudioUnit::get_property::<T>
GetProperty(id, scope, elem, sizeT, fault) ==
    \E storage \in uninit(sizeT) :
        LET a  == get_property(id, scope, elem, sizeT)
            st == AudioUnitGetProperty_Status(props, life, a, fault)
            data == AudioUnitGetProperty_Data(props, a, st, storage)
        IN
        /\ pc = "alive"
        /\ calls' = <<Call("AudioUnitGetProperty", st)>>
        /\ last' = [NativeRet("get_property", st) EXCEPT
                        !.id = id, !.scope = scope, !.elem = elem, !.sizeT = sizeT,
                        !.size = a.size,
                        !.written = AudioUnitGetProperty_Written(props, a, st),
                        !.value = IF try_os_status(st) THEN data ELSE <<>>]
        /\ usedAfterDispose' = NoteUse(life)
        /\ UNCHANGED <<everStarted, pc, life, props, cbVars, inflight, disposeCalls, setByCaller>>

\* ------------------------------------------------------------- teardown
\* Variants of drop's statement order, used to test the teardown properties:
\* dispose issued before the callback resources are released,
drop_next_DisposeBeforeFree(step, st) ==
    CASE step = "drop_stop"          -> "drop_uninitialize"
      [] step = "drop_uninitialize"  -> "drop_dispose"
      [] step = "drop_dispose"       -> "drop_free_render"
      [] step = "drop_free_render"   -> "drop_free_input"
      [] step = "drop_free_input"    -> "dropped"
\* dispose issued before uninitialize,
drop_next_DisposeBeforeUninitialize(step, st) ==
    CASE step = "drop_stop"          -> "drop_dispose"
      [] step = "drop_dispose"       -> "drop_uninitialize"
      [] step = "drop_uninitialize"  -> "drop_free_render"
      [] step = "drop_free_render"   -> "drop_free_input"
      [] step = "drop_free_input"    -> "dropped"
\* and a failed step ending drop at once, as try_os_status! would.
drop_next_Propagate(step, st) ==
    CASE st = "err"                  -> "dropped"
      [] step = "drop_stop"          -> "drop_uninitialize"
      [] step = "drop_uninitialize"  -> "drop_free_render"
      [] step = "drop_free_render"   -> "drop_free_input"
      [] step = "drop_free_input"    -> "drop_dispose"
      [] step = "drop_dispose"       -> "dropped"

\* impl Drop for AudioUnit: the statement that follows each statement of
\* drop; every returned status is discarded with .ok().
drop_next(step, st) ==
    CASE step = "drop_stop"          -> "drop_uninitialize"
      [] step = "drop_uninitialize"  -> "drop_free_render"
      [] step = "drop_free_render"   -> "drop_free_input"
      [] step = "drop_free_input"    -> "drop_dispose"
      [] step = "drop_dispose"       -> "dropped"

\* A drop that leaves out self.stop().
drop_first_Uninitialize == "drop_uninitialize"

\* The facade goes out of scope: drop begins with its first statement.
drop_first == "drop_stop"

DropBegin ==
    /\ pc = "alive"
    /\ pc' = drop_first
    /\ calls' = <<>>
    /\ last' = Ret("drop", "", FALSE, "")
    /\ UNCHANGED <<everStarted, life, props, cbVars, inflight, disposeCalls, usedAfterDispose,
                   setByCaller>>

DropReturn(next) == IF next = "dropped" THEN Ret("drop", "", TRUE, "") ELSE last

\* self.stop().ok();
DropStop ==
    \E fault \in BOOLEAN :
        LET r == stop(life, fault) IN
        /\ pc = "drop_stop"
        /\ Quiesced(life, r.life)
        /\ life' = r.life
        /\ calls' = calls \o r.calls
        /\ pc' = drop_next(pc, r.ret.status)
        /\ last' = DropReturn(pc')
        /\ usedAfterDispose' = NoteUse(life)
        /\ UNCHANGED <<everStarted, props, cbVars, inflight, disposeCalls, setByCaller>>

\* error::Error::from_os_status(sys::AudioUnitUninitialize(self.instance)).ok();
DropUninitialize ==
    \E fault \in BOOLEAN :
        LET st == AudioUnitUninitialize_Status(life, fault) IN
        /\ pc = "drop_uninitialize"
        /\ Quiesced(life, AudioUnitUninitialize_Life(life, st))
        /\ life' = AudioUnitUninitialize_Life(life, st)
        /\ calls' = Append(calls, Call("AudioUnitUninitialize", st))
        /\ pc' = drop_next(pc, st)
        /\ last' = DropReturn(pc')
        /\ usedAfterDispose' = NoteUse(life)
        /\ UNCHANGED <<everStarted, props, cbVars, inflight, disposeCalls, setByCaller>>

\* error::Error::from_os_status(sys::AudioComponentInstanceDispose(self.instance)).ok();
DropDispose ==
    \E fault \in BOOLEAN :
        LET st == AudioComponentInstanceDispose_Status(life, fault) IN
        /\ pc = "drop_dispose"
        /\ life' = AudioComponentInstanceDispose_Life(life, st)
        /\ calls' = Append(calls, Call("AudioComponentInstanceDispose", st))
        /\ pc' = drop_next(pc, st)
        /\ last' = DropReturn(pc')
        /\ disposeCalls' = disposeCalls + 1
        /\ usedAfterDispose' = NoteUse(life)
        /\ UNCHANGED <<everStarted, props, cbVars, inflight, setByCaller>>

\* ----------------------------------------------------- callback bridge
\* A callback slot of the facade with the native registration it mirrors.
\* Releasing a slot clears the native property to null (status st), then
\* releases the wrapper (and, for the input slot, its buffer list).
free_callback(slot, reg, fr, how, st, why) ==
    IF slot = None THEN
        [slot |-> None, reg |-> reg, frees |-> fr, how |-> how, calls |-> <<>>]
    ELSE
        [slot |-> None,
         reg |-> IF st = "noErr" THEN None ELSE reg,
         frees |-> [fr EXCEPT ![slot] = @ + 1],
         how |-> [how EXCEPT ![slot] = why],
         calls |-> <<Call("AudioUnitSetProperty", st), Call("release", "")>>]

\* Registering: release the active registration if there is one, allocate
\* the wrapper w, install the trampoline with w as user data (status st2).
set_callback(slot, reg, fr, how, w, st1, st2, stopped) ==
    LET f == free_callback(slot, reg, fr, how, st1,
                           IF ~try_os_status(st2) THEN "replace_failed"
                           ELSE IF stopped THEN "replaced_stopped"
                           ELSE "replaced_started")
    IN
    IF try_os_status(st2) THEN
        [slot |-> w, reg |-> w, frees |-> f.frees, how |-> f.how,
         calls |-> f.calls \o <<Call("AudioUnitSetProperty", st2)>>]
    ELSE
        [slot |-> None, reg |-> f.reg,
         frees |-> [f.frees EXCEPT ![w] = @ + 1],
         how |-> [f.how EXCEPT ![w] = "unregistered"],
         calls |-> f.calls \o <<Call("AudioUnitSetProperty", st2), Call("release", "")>>]

PropStatus(l, fault) == IF fault \/ Gone(l) THEN "err" ELSE "noErr"

\* AudioUnit::set_render_callback
SetRenderCallback ==
    \E fault1 \in BOOLEAN, fault2 \in BOOLEAN :
        LET w == allocated + 1
            st2 == PropStatus(life, fault2)
            r == set_callback(maybe_render_callback, renderReg, frees, freedHow, w,
                              PropStatus(life, fault1), st2, life # "Started")
        IN
        /\ pc = "alive"
        /\ allocated < MaxWrappers
        /\ (maybe_render_callback = None => ~fault1)
        /\ allocated' = w
        /\ maybe_render_callback' = r.slot
        /\ renderReg' = r.reg
        /\ frees' = r.frees
        /\ freedHow' = r.how
        /\ calls' = r.calls
        /\ last' = NativeRet("set_render_callback", st2)
        /\ usedAfterDispose' = NoteUse(life)
        /\ UNCHANGED <<everStarted, pc, life, props, maybe_input_callback, inputReg, inflight,
                       disposeCalls, setByCaller>>

\* AudioUnit::set_input_callback
SetInputCallback ==
    \E fault1 \in BOOLEAN, fault2 \in BOOLEAN :
        LET w == allocated + 1
            st2 == PropStatus(life, fault2)
            r == set_callback(maybe_input_callback, inputReg, frees, freedHow, w,
                              PropStatus(life, fault1), st2, life # "Started")
        IN
        /\ pc = "alive"
        /\ allocated < MaxWrappers
        /\ (maybe_input_callback = None => ~fault1)
        /\ allocated' = w
        /\ maybe_input_callback' = r.slot
        /\ inputReg' = r.reg
        /\ frees' = r.frees
        /\ freedHow' = r.how
        /\ calls' = r.calls
        /\ last' = NativeRet("set_input_callback", st2)
        /\ usedAfterDispose' = NoteUse(life)
        /\ UNCHANGED <<everStarted, pc, life, props, maybe_render_callback, renderReg, inflight,
                       disposeCalls, setByCaller>>

\* AudioUnit::free_render_callback, called by the owner
FreeRenderCallback ==
    \E fault \in BOOLEAN :
        LET r == free_callback(maybe_render_callback, renderReg, frees, freedHow,
                               PropStatus(life, fault), "unregistered")
        IN
        /\ pc = "alive"
        /\ maybe_render_callback # None
        /\ maybe_render_callback' = r.slot
        /\ renderReg' = r.reg
        /\ frees' = r.frees
        /\ freedHow' = r.how
        /\ calls' = r.calls
        /\ last' = Ret("free_render_callback", "", TRUE, "")
        /\ usedAfterDispose' = NoteUse(life)
        /\ UNCHANGED <<everStarted, pc, life, props, maybe_input_callback, inputReg, allocated,
                       inflight, disposeCalls, setByCaller>>

\* AudioUnit::free_input_callback, called by the owner
FreeInputCallback ==
    \E fault \in BOOLEAN :
        LET r == free_callback(maybe_input_callback, inputReg, frees, freedHow,
                               PropStatus(life, fault), "unregistered")
        IN
        /\ pc = "alive"
        /\ maybe_input_callback # None
        /\ maybe_input_callback' = r.slot
        /\ inputReg' = r.reg
        /\ frees' = r.frees
        /\ freedHow' = r.how
        /\ calls' = r.calls
        /\ last' = Ret("free_input_callback", "", TRUE, "")
        /\ usedAfterDispose' = NoteUse(life)
        /\ UNCHANGED <<everStarted, pc, life, props, maybe_render_callback, renderReg, allocated,
                       inflight, disposeCalls, setByCaller>>

\* self.free_render_callback();  (in drop)
DropFreeRender ==
    \E fault \in BOOLEAN :
        LET r == free_callback(maybe_render_callback, renderReg, frees, freedHow,
                               PropStatus(life, fault), "teardown")
        IN
        /\ pc = "drop_free_render"
        /\ (maybe_render_callback = None => ~fault)
        /\ maybe_render_callback' = r.slot
        /\ renderReg' = r.reg
        /\ frees' = r.frees
        /\ freedHow' = r.how
        /\ calls' = Append(calls, Call("free_render_callback", "")) \o r.calls
        /\ pc' = drop_next(pc, "")
        /\ last' = DropReturn(pc')
        /\ usedAfterDispose' = (usedAfterDispose \/ (r.calls # <<>> /\ life = "Disposed"))
        /\ UNCHANGED <<everStarted, life, props, maybe_input_callback, inputReg, allocated,
                       inflight, disposeCalls, setByCaller>>

\* self.free_input_callback();  (in drop)
DropFreeInput ==
    \E fault \in BOOLEAN :
        LET r == free_callback(maybe_input_callback, inputReg, frees, freedHow,
                               PropStatus(life, fault), "teardown")
        IN
        /\ pc = "drop_free_input"
        /\ (maybe_input_callback = None => ~fault)
        /\ maybe_input_callback' = r.slot
        /\ inputReg' = r.reg
        /\ frees' = r.frees
        /\ freedHow' = r.how
        /\ calls' = Append(calls, Call("free_input_callback", "")) \o r.calls
        /\ pc' = drop_next(pc, "")
        /\ last' = DropReturn(pc')
        /\ usedAfterDispose' = (usedAfterDispose \/ (r.calls # <<>> /\ life = "Disposed"))
        /\ UNCHANGED <<everStarted, life, props, maybe_render_callback, renderReg, allocated,
                       inflight, disposeCalls, setByCaller>>

\* ------------------------------------------------- the audio thread
\* The native real-time thread enters a registered trampoline, with the
\* registered user-data pointer, once per buffer cycle while the unit runs.
AudioRender ==
    /\ life = "Started"
    /\ renderReg # None
    /\ inflight = None
    /\ inflight' = renderReg
    /\ UNCHANGED <<everStarted, pc, life, props, cbVars, calls, last, disposeCalls,
                   usedAfterDispose, setByCaller>>

AudioInput ==
    /\ life = "Started"
    /\ inputReg # None
    /\ inflight = None
    /\ inflight' = inputReg
    /\ UNCHANGED <<everStarted, pc, life, props, cbVars, calls, last, disposeCalls,
                   usedAfterDispose, setByCaller>>

AudioReturn ==
    /\ inflight # None
    /\ inflight' = None
    /\ UNCHANGED <<everStarted, pc, life, props, cbVars, calls, last, disposeCalls,
                   usedAfterDispose, setByCaller>>

\* ----------------------------------------------------- typed accessors
\* sample rate and stream format through the generic accessors.  A property
\* of type T occupies NativeSize cells, each holding one value of T.
Scope_Output == 2
FormatScopes == Scopes \cup {Scope_Output}
kAudioUnitProperty_SampleRate == "SampleRate"
kAudioUnitProperty_StreamFormat == "StreamFormat"

Rates == {44100, 48000}
SampleFormats == {"F32", "I16"}
\* StreamFormat { sample_rate, sample_format, interleaved, channels }
StreamFormats ==
    [sample_rate : {44100}, sample_format : SampleFormats,
     interleaved : BOOLEAN, channels : 1..MaxChannels]
BitsOf(sample_format) == IF sample_format = "F32" THEN 32 ELSE 16

\* StreamFormat::to_asbd: the native descriptor of a stream format, with
\* bytes per frame and per packet derived from width, channels and layout.
to_asbd(f) ==
    LET bytes == BitsOf(f.sample_format) \div 8
        frame == IF f.interleaved THEN bytes * f.channels ELSE bytes
    IN
    [mSampleRate |-> f.sample_rate,
     mFormatID |-> "lpcm",
     mFormatFlags |-> (IF f.sample_format = "F32" THEN {"IsFloat"} ELSE {"IsSignedInteger"})
                      \cup {"IsPacked"}
                      \cup (IF f.interleaved THEN {} ELSE {"IsNonInterleaved"}),
     mBytesPerPacket |-> frame,
     mFramesPerPacket |-> 1,
     mBytesPerFrame |-> frame,
     mChannelsPerFrame |-> f.channels,
     mBitsPerChannel |-> BitsOf(f.sample_format)]

\* StreamFormat::from_asbd: the stream format a descriptor encodes, or
\* UnsupportedStreamFormat for a layout outside the supported set.
from_asbd(d) ==
    LET sample_format ==
            IF "IsFloat" \in d.mFormatFlags /\ d.mBitsPerChannel = 32 THEN "F32"
            ELSE IF "IsSignedInteger" \in d.mFormatFlags /\ "IsFloat" \notin d.mFormatFlags
                    /\ d.mBitsPerChannel = 16 THEN "I16"
            ELSE "None"
    IN
    IF d.mFormatID # "lpcm" \/ sample_format = "None" THEN
        [Ret("stream_format", "noErr", FALSE, "UnsupportedStreamFormat") EXCEPT
            !.written = NativeSize]
    ELSE
        [Ret("stream_format", "noErr", TRUE, "") EXCEPT
            !.written = NativeSize,
            !.value = <<[sample_rate |-> d.mSampleRate, sample_format |-> sample_format,
                         interleaved |-> "IsNonInterleaved" \notin d.mFormatFlags,
                         channels |-> d.mChannelsPerFrame]>>]

\* Descriptors a unit may hold that no StreamFormat encodes: a compressed
\* format and 24-bit integer samples.  NativeFormats are the descriptors a
\* unit starts with, and the contents of storage not yet written.
CanonicalFormat ==
    [sample_rate |-> 44100, sample_format |-> "F32", interleaved |-> FALSE, channels |-> 1]
UnsupportedDescriptors ==
    {[to_asbd(CanonicalFormat) EXCEPT !.mFormatID = "aac ", !.mFormatFlags = {}],
     [to_asbd(CanonicalFormat) EXCEPT !.mFormatFlags = {"IsSignedInteger", "IsPacked"},
                                      !.mBitsPerChannel = 24, !.mBytesPerFrame = 3,
                                      !.mBytesPerPacket = 3]}
NativeFormats == {to_asbd(CanonicalFormat)} \cup UnsupportedDescriptors

\* A set_stream_format that ignores its scope and addresses Scope::Input,
\* used to test the read-back property.
set_stream_format_ScopeInput(stream_format, scope) ==
    set_property(kAudioUnitProperty_StreamFormat, Scope_Input, Element_Output,
                 <<to_asbd(stream_format)>>)
\* A stream_format that converts whatever its storage holds, whether or not
\* the native getter succeeded, used to test the error path.
stream_format_ConvertAnyway(table, l, scope, fault, storage) ==
    LET a  == get_property(kAudioUnitProperty_StreamFormat, scope, Element_Output, NativeSize)
        st == AudioUnitGetProperty_Status(table, l, a, fault)
        asbd == AudioUnitGetProperty_Data(table, a, st, storage)[1]
    IN
    [calls |-> <<Call("AudioUnitGetProperty", st), Call("from_asbd", "")>>,
     ret |-> [from_asbd(asbd) EXCEPT !.scope = scope, !.status = st]]

\* AudioUnit::set_sample_rate(sample_rate)
set_sample_rate(sample_rate) ==
    set_property(kAudioUnitProperty_SampleRate, Scope_Input, Element_Output,
                 <<sample_rate>>)

\* AudioUnit::sample_rate()
sample_rate(table, l, fault, storage) ==
    LET a  == get_property(kAudioUnitProperty_SampleRate, Scope_Input, Element_Output,
                           NativeSize)
        st == AudioUnitGetProperty_Status(table, l, a, fault)
    IN
    [calls |-> <<Call("AudioUnitGetProperty", st)>>,
     ret |-> IF try_os_status(st)
             THEN [NativeRet("sample_rate", st) EXCEPT
                      !.written = AudioUnitGetProperty_Written(table, a, st),
                      !.value = AudioUnitGetProperty_Data(table, a, st, storage)]
             ELSE NativeRet("sample_rate", st)]

\* AudioUnit::set_stream_format(stream_format, scope)
set_stream_format(stream_format, scope) ==
    set_property(kAudioUnitProperty_StreamFormat, scope, Element_Output,
                 <<to_asbd(stream_format)>>)

\* AudioUnit::stream_format(scope): the `?` returns the getter's error
\* before from_asbd is reached.
stream_format(table, l, scope, fault, storage) ==
    LET a  == get_property(kAudioUnitProperty_StreamFormat, scope, Element_Output, NativeSize)
        st == AudioUnitGetProperty_Status(table, l, a, fault)
        asbd == AudioUnitGetProperty_Data(table, a, st, storage)[1]
    IN
    IF ~try_os_status(st) THEN
        [calls |-> <<Call("AudioUnitGetProperty", st)>>,
         ret |-> [NativeRet("stream_format", st) EXCEPT !.scope = scope]]
    ELSE
        [calls |-> <<Call("AudioUnitGetProperty", st), Call("from_asbd", "")>>,
         ret |-> [from_asbd(asbd) EXCEPT !.scope = scope]]

\* AudioUnit::output_stream_format() / input_stream_format()
output_stream_format(table, l, fault, storage) ==
    stream_format(table, l, Scope_Output, fault, storage)
input_stream_format(table, l, fault, storage) ==
    stream_format(table, l, Scope_Input, fault, storage)

\* What the caller last wrote through a typed setter: the accessor, the
\* scope it named and the value; nothing else has been written since.
AccessorKeys == {<<"sample_rate", Scope_Input>>} \cup ({"stream_format"} \X FormatScopes)

TypedSet(op, key, v, a, fault) ==
    LET st == AudioUnitSetProperty_Status(props, life, a, fault) IN
    /\ pc = "alive"
    /\ props' = AudioUnitSetProperty_Table(props, a, st)
    /\ calls' = <<Call("AudioUnitSetProperty", st)>>
    /\ last' = [NativeRet(op, st) EXCEPT
                    !.scope = key[2],
                    !.value = IF try_os_status(st) THEN <<v>> ELSE <<>>]
    /\ setByCaller' = IF try_os_status(st)
                      THEN [k \in AccessorKeys |-> IF k = key THEN <<v>> ELSE NoData]
                      ELSE setByCaller
    /\ usedAfterDispose' = NoteUse(life)
    /\ UNCHANGED <<everStarted, pc, life, cbVars, inflight, disposeCalls>>

TypedGet(r) ==
    /\ pc = "alive"
    /\ calls' = r.calls
    /\ last' = r.ret
    /\ usedAfterDispose' = NoteUse(life)
    /\ UNCHANGED <<everStarted, pc, life, props, cbVars, inflight, disposeCalls, setByCaller>>

SetSampleRate ==
    \E r \in Rates, fault \in BOOLEAN :
        TypedSet("set_sample_rate", <<"sample_rate", Scope_Input>>, r,
                 set_sample_rate(r), fault)
SampleRate ==
    \E fault \in BOOLEAN, storage \in [1..NativeSize -> Rates] :
        TypedGet(sample_rate(props, life, fault, storage))
SetStreamFormat ==
    \E f \in StreamFormats, scope \in FormatScopes, fault \in BOOLEAN :
        TypedSet("set_stream_format", <<"stream_format", scope>>, f,
                 set_stream_format(f, scope), fault)
StreamFormat ==
    \E scope \in FormatScopes, fault \in BOOLEAN, storage \in [1..NativeSize -> NativeFormats] :
        TypedGet(stream_format(props, life, scope, fault, storage))
OutputStreamFormat ==
    \E fault \in BOOLEAN, storage \in [1..NativeSize -> NativeFormats] :
        TypedGet(output_stream_format(props, life, fault, storage))
InputStreamFormat ==
    \E fault \in BOOLEAN, storage \in [1..NativeSize -> NativeFormats] :
        TypedGet(input_stream_format(props, life, fault, storage))

\* ------------------------------------------------------ specifications
InitWith(supported) ==
    /\ pc = "start"
    /\ life = "NoInstance"
    /\ props = InitialProps(supported)
    /\ maybe_render_callback = None
    /\ maybe_input_callback = None
    /\ allocated = 0
    /\ frees = [w \in Wrappers |-> 0]
    /\ freedHow = [w \in Wrappers |-> ""]
    /\ renderReg = None
    /\ inputReg = None
    /\ inflight = None
    /\ calls = <<>>
    /\ last = Ret("none", "", FALSE, "")
    /\ disposeCalls = 0
    /\ usedAfterDispose = FALSE
    /\ setByCaller = [t \in Triples |-> <<>>]
    /\ everStarted = FALSE

\* The whole facade on a unit that supports one property.
UnitTriple == <<"WithDefault", Scope_Global, Element_Output>>
Init == InitWith({UnitTriple})

Next ==
    \/ New
    \/ NewWithFlags
    \/ Initialize
    \/ Uninitialize
    \/ Start
    \/ Stop
    \/ \E d \in {NoData} \cup ValuesOf(NativeSize), fault \in BOOLEAN :
          SetProperty(UnitTriple[1], UnitTriple[2], UnitTriple[3], d, fault)
    \/ \E fault \in BOOLEAN :
          GetProperty(UnitTriple[1], UnitTriple[2], UnitTriple[3], NativeSize, fault)
    \/ SetRenderCallback
    \/ SetInputCallback
    \/ FreeRenderCallback
    \/ FreeInputCallback
    \/ DropBegin
    \/ DropStop
    \/ DropUninitialize
    \/ DropFreeRender
    \/ DropFreeInput
    \/ DropDispose
    \/ AudioRender
    \/ AudioInput
    \/ AudioReturn

Spec == Init /\ [][Next]_vars

\* The typed property accessors on a constructed, initialized unit whose
\* properties live in the Global scope.
PropsSupported == PropIds \X {Scope_Global} \X Elements
AllData == {NoData} \cup UNION {ValuesOf(n) : n \in SizesT}

InitProps ==
    /\ pc = "alive"
    /\ life = "Initialized"
    /\ props = InitialProps(PropsSupported)
    /\ maybe_render_callback = None
    /\ maybe_input_callback = None
    /\ allocated = 0
    /\ frees = [w \in Wrappers |-> 0]
    /\ freedHow = [w \in Wrappers |-> ""]
    /\ renderReg = None
    /\ inputReg = None
    /\ inflight = None
    /\ calls = <<>>
    /\ last = [NativeRet("new", "noErr") EXCEPT !.arg = "Mapped"]
    /\ disposeCalls = 0
    /\ usedAfterDispose = FALSE
    /\ setByCaller = [t \in Triples |-> <<>>]
    /\ everStarted = FALSE

NextProps ==
    \/ \E id \in PropIds, scope \in Scopes, elem \in Elements, d \in AllData,
          fault \in BOOLEAN :
          SetProperty(id, scope, elem, d, fault)
    \/ \E id \in PropIds, scope \in Scopes, elem \in Elements, sizeT \in SizesT,
          fault \in BOOLEAN :
          GetProperty(id, scope, elem, sizeT, fault)

SpecProps == InitProps /\ [][NextProps]_vars

\* The sample-rate and stream-format accessors on a constructed,
\* initialized unit that keeps a stream format for the input and the output
\* scope of its output element (none for the global scope) and a sample
\* rate on its input scope; the formats it starts with are its own and need
\* not be ones a StreamFormat can express.
FormatTriples ==
    ({kAudioUnitProperty_StreamFormat} \X {Scope_Input, Scope_Output} \X {Element_Output})
    \cup {<<kAudioUnitProperty_SampleRate, Scope_Input, Element_Output>>}
InitFormat ==
    /\ pc = "alive"
    /\ life = "Initialized"
    /\ \E sf \in [{Scope_Input, Scope_Output} -> NativeFormats] :
          props = [t \in FormatTriples |->
                      IF t[1] = kAudioUnitProperty_StreamFormat THEN <<sf[t[2]]>>
                      ELSE <<44100>>]
    /\ maybe_render_callback = None
    /\ maybe_input_callback = None
    /\ allocated = 0
    /\ frees = [w \in Wrappers |-> 0]
    /\ freedHow = [w \in Wrappers |-> ""]
    /\ renderReg = None
    /\ inputReg = None
    /\ inflight = None
    /\ calls = <<>>
    /\ last = [NativeRet("new", "noErr") EXCEPT !.arg = "Mapped"]
    /\ disposeCalls = 0
    /\ usedAfterDispose = FALSE
    /\ setByCaller = [k \in AccessorKeys |-> NoData]
    /\ everStarted = FALSE

NextFormat ==
    \/ SetSampleRate
    \/ SampleRate
    \/ SetStreamFormat
    \/ StreamFormat
    \/ OutputStreamFormat
    \/ InputStreamFormat

SpecFormat == InitFormat /\ [][NextFormat]_vars

\* ================================================================ claims
DropSteps == {"drop_stop", "drop_uninitialize", "drop_free_render",
              "drop_free_input", "drop_dispose"}
InDrop == pc \in DropSteps \cup {"dropped"}
DropOrder == <<"AudioOutputUnitStop", "AudioUnitUninitialize", "free_render_callback",
               "free_input_callback", "AudioComponentInstanceDispose">>
IsDropStep(c) == \E i \in 1..Len(DropOrder) : DropOrder[i] = c.fn
StepsOf(cs) == [i \in 1..Len(SelectSeq(cs, IsDropStep)) |-> SelectSeq(cs, IsDropStep)[i].fn]
IsPrefix(a, b) == Len(a) <= Len(b) /\ \A i \in 1..Len(a) : a[i] = b[i]
Count(cs, fn) == Cardinality({i \in 1..Len(cs) : cs[i].fn = fn})
DropStep ==
    DropStop \/ DropUninitialize \/ DropFreeRender \/ DropFreeInput \/ DropDispose

\* C1: drop issues its steps in one fixed order from every facade state:
\* native stop, native uninitialize, release of the render-callback
\* resources, release of the input-callback resources, native dispose; what
\* it has issued so far is always a prefix of that order, every release
\* comes after uninitialize and before dispose, and dispose is the last call.
C1_TeardownOrder ==
    InDrop =>
        /\ IsPrefix(StepsOf(calls), DropOrder)
        /\ \A i \in 1..Len(calls) :
              calls[i].fn = "release" =>
                  /\ \E j \in 1..(i - 1) : calls[j].fn = "AudioUnitUninitialize"
                  /\ \A k \in 1..Len(calls) :
                        calls[k].fn = "AudioComponentInstanceDispose" => i < k
        /\ pc = "dropped" =>
              /\ StepsOf(calls) = DropOrder
              /\ calls[Len(calls)].fn = "AudioComponentInstanceDispose"

\* A drop that ran to its end and released both a render and an input
\* registration on the way.
C1_Witness ==
    /\ pc = "dropped"
    /\ Count(calls, "release") = 2
    /\ Cardinality({w \in Wrappers : freedHow[w] = "teardown"}) = 2

\* C2: over every sequence of public operations ending in teardown, the
\* native dispose call is issued at most once and no native call is made on
\* the handle after it has been disposed.
C2_DisposedOnceNeverUsedAfter ==
    /\ disposeCalls <= 1
    /\ ~usedAfterDispose
    /\ life = "Disposed" => pc = "dropped"

\* A disposed unit whose owner had set a property and registered a callback.
C2_Witness ==
    /\ pc = "dropped"
    /\ life = "Disposed"
    /\ disposeCalls = 1
    /\ setByCaller[UnitTriple] # <<>>
    /\ allocated > 0

\* C3: teardown is total: whatever statuses native stop, uninitialize and
\* dispose return, drop can always take its next step, has attempted every
\* step exactly once when it ends, and returns no error.
C3_TeardownTotal ==
    /\ pc \in DropSteps => ENABLED DropStep
    /\ InDrop => \A i \in 1..Len(DropOrder) : Count(calls, DropOrder[i]) <= 1
    /\ pc = "dropped" =>
          /\ \A i \in 1..Len(DropOrder) : Count(calls, DropOrder[i]) = 1
          /\ last = Ret("drop", "", TRUE, "")

\* A finished drop in which stop, uninitialize and dispose all failed.
C3_Witness ==
    /\ pc = "dropped"
    /\ \A i \in 1..Len(calls) :
          calls[i].fn \in {"AudioOutputUnitStop", "AudioUnitUninitialize",
                           "AudioComponentInstanceDispose"} => calls[i].st = "err"

\* C4: whenever teardown has released callback resources the unit is not in
\* the Started state, whatever native stop and uninitialize returned, and the
\* audio thread is never inside a trampoline whose wrapper teardown released.
C4_NoReleaseWhileStarted ==
    \A w \in Wrappers :
        freedHow[w] = "teardown" =>
            /\ pc \in DropSteps => life # "Started"
            /\ inflight # w

\* C5: a requested type without a native subtype mapping makes new /
\* new_with_flags return NoKnownSubtype with no native call made and no
\* native instance created.
C5_NoKnownSubtypeBeforeNative ==
    /\ (last.op = "new" /\ as_subtype_u32(last.arg) = "None") =>
          /\ ~last.ok
          /\ last.err = "NoKnownSubtype"
          /\ calls = <<>>
          /\ life = "NoInstance"
          /\ pc = "failed"
    /\ (last.op = "new" /\ last.err = "NoKnownSubtype") => calls = <<>>

\* Construction was asked for the unmapped type and has returned.
C5_Witness ==
    /\ pc = "failed"
    /\ last.op = "new"
    /\ last.arg = "Unmapped"
    /\ last.err = "NoKnownSubtype"

ThisTriple == <<last.id, last.scope, last.elem>>

\* C6: when get_property succeeds and the native layer wrote fewer than
\* size_of T bytes, every byte it did not write is zero in the returned value.
C6_UnwrittenBytesZero ==
    (last.op = "get_property" /\ last.ok) =>
        \A i \in (last.written + 1)..last.sizeT : last.value[i] = 0

\* C7 as stated: set_property forwards null and size 0 for an absent value
\* and the address and size_of T for a present one; clearing a property
\* without a default fails, clearing one with a default leaves the default.
C7_ClearNeedsDefault ==
    last.op = "set_property" =>
        /\ ~last.present => (last.ptrNull /\ last.size = 0)
        /\ last.present => (~last.ptrNull /\ last.size = last.sizeT)
        /\ (~last.present /\ ~HasDefault(last.id)) => ~last.ok
        /\ (~last.present /\ HasDefault(last.id) /\ last.ok) =>
              props[ThisTriple] = DefaultValue

\* C7 as amended: set_property forwards null and size 0 for an absent value
\* and the address and size_of T for a present one, and returns what the
\* native setter reports; clearing works only for properties that do not
\* have a default value: clearing one that has a default fails, and a clear
\* that succeeds leaves the property without a value.
C7_ClearNeedsNoDefault ==
    last.op = "set_property" =>
        /\ ~last.present => (last.ptrNull /\ last.size = 0)
        /\ last.present => (~last.ptrNull /\ last.size = last.sizeT)
        /\ last.ok <=> (calls[1].st = "noErr")
        /\ (~last.present /\ HasDefault(last.id)) =>
              (~last.ok /\ (ThisTriple \in DOMAIN props => props[ThisTriple] # <<>>))
        /\ (~last.present /\ last.ok) =>
              (~HasDefault(last.id) /\ props[ThisTriple] = <<>>)

\* A clear that succeeded on a property that had been given a value.
C7_Witness ==
    /\ last.op = "set_property"
    /\ ~last.present
    /\ last.ok
    /\ \E t \in DOMAIN props : HasDefault(t[1]) /\ props[t] # DefaultValue

\* C8: a get_property::<T> on a triple returns the value the last successful
\* set_property on that same triple stored with the same T, whatever was set
\* on other triples in between.
C8_SetThenGet ==
    (/\ last.op = "get_property"
     /\ last.ok
     /\ setByCaller[ThisTriple] # NoData
     /\ Len(setByCaller[ThisTriple]) = last.sizeT) =>
        last.value = setByCaller[ThisTriple]

\* A get returned the value set on its triple while another triple holds a
\* different value the caller set.
C8_Witness ==
    /\ last.op = "get_property"
    /\ last.ok
    /\ setByCaller[ThisTriple] # NoData
    /\ last.value = setByCaller[ThisTriple]
    /\ \E t \in Triples :
          /\ t # ThisTriple
          /\ setByCaller[t] # NoData
          /\ setByCaller[t] # setByCaller[ThisTriple]

NativeOf(op) ==
    CASE op = "initialize"   -> "AudioUnitInitialize"
      [] op = "uninitialize" -> "AudioUnitUninitialize"
      [] op = "start"        -> "AudioOutputUnitStart"
      [] op = "stop"         -> "AudioOutputUnitStop"
      [] op = "set_property" -> "AudioUnitSetProperty"
      [] op = "get_property" -> "AudioUnitGetProperty"

\* C9: outside teardown, initialize, uninitialize, start, stop, set_property
\* and get_property each make exactly one native call, return Ok iff that
\* call reported success, and return its status as the error otherwise;
\* a failed get_property yields no value.
C9_OneCallStatusSurfaced ==
    last.op \in {"initialize", "uninitialize", "start", "stop",
                 "set_property", "get_property"} =>
        /\ Len(calls) = 1
        /\ calls[1].fn = NativeOf(last.op)
        /\ last.status = calls[1].st
        /\ last.ok <=> (calls[1].st = "noErr")
        /\ ~last.ok => (last.err = "Native" /\ last.value = <<>>)
        /\ last.ok => last.err = ""

\* A get_property whose native call failed.
C9_Witness ==
    /\ last.op = "get_property"
    /\ ~last.ok
    /\ calls = <<Call("AudioUnitGetProperty", "err")>>

LiveWrappers == {w \in Wrappers : w <= allocated /\ frees[w] = 0}
Held == {maybe_render_callback, maybe_input_callback} \ {None}

\* C10: the live wrappers are exactly those held by the two slots, one per
\* slot at most and none right after construction; no wrapper is released
\* twice; a successful set_render_callback leaves its one wrapper registered;
\* and a wrapper replaced while the unit was stopped has been released once
\* and is never run by the audio thread or registered again.
C10_OneRegistrationPerSlot ==
    /\ LiveWrappers = Held
    /\ maybe_render_callback # None => maybe_render_callback # maybe_input_callback
    /\ (last.op = "new" /\ pc = "alive") =>
          (maybe_render_callback = None /\ maybe_input_callback = None)
    /\ \A w \in Wrappers : frees[w] <= 1
    /\ (last.op = "set_render_callback" /\ last.ok) =>
          /\ maybe_render_callback = allocated
          /\ renderReg = maybe_render_callback
    /\ \A w \in Wrappers :
          freedHow[w] = "replaced_stopped" =>
              /\ frees[w] = 1
              /\ inflight # w
              /\ renderReg # w
              /\ inputReg # w

\* An active render callback was just replaced while the unit was stopped.
C10_Witness ==
    /\ last.op = "set_render_callback"
    /\ last.ok
    /\ Len(calls) = 3
    /\ life = "Initialized"
    /\ \E w \in Wrappers : freedHow[w] = "replaced_stopped"

\* The fallible operations the facade offers its owner.
PublicOp ==
    \/ Initialize
    \/ Uninitialize
    \/ Start
    \/ Stop
    \/ \E t \in Triples, d \in AllData, fault \in BOOLEAN :
          SetProperty(t[1], t[2], t[3], d, fault)
    \/ \E t \in Triples, sizeT \in SizesT, fault \in BOOLEAN :
          GetProperty(t[1], t[2], t[3], sizeT, fault)
    \/ SetRenderCallback
    \/ SetInputCallback
    \/ FreeRenderCallback
    \/ FreeInputCallback

\* The native calls whose status drop discards.
Suppressed == {"AudioOutputUnitStop", "AudioUnitUninitialize",
               "AudioComponentInstanceDispose"}
Observable(fn) ==
    ENABLED (PublicOp /\ calls' = <<Call(fn, "err")>>
                      /\ ~last'.ok /\ last'.err = "Native")

\* C11: for every native call whose error drop suppresses (stop,
\* uninitialize, dispose) the owner of a live facade has a fallible public
\* operation that issues that call and returns its failure as an error.
C11_EverySuppressedStepObservable ==
    pc = "alive" => \A fn \in Suppressed : Observable(fn)

\* C12: a facade that never started and never had a callback registered is
\* dropped without an error and without the audio thread ever entering a
\* trampoline, while drop still issues stop and uninitialize on it.
C12_QuietDropOfIdleUnit ==
    (~everStarted /\ allocated = 0) =>
        /\ inflight = None
        /\ renderReg = None
        /\ inputReg = None
        /\ pc = "dropped" =>
              /\ last = Ret("drop", "", TRUE, "")
              /\ StepsOf(calls) = DropOrder
              /\ Len(calls) = Len(DropOrder)

\* An idle facade was dropped after its owner had used the property accessors.
C12_Witness ==
    /\ pc = "dropped"
    /\ ~everStarted
    /\ allocated = 0
    /\ setByCaller[UnitTriple] # NoData

\* What construction has asked of the native layer.
FindNext(st) == Call("AudioComponentFindNext", st)
InstanceNew(st) == Call("AudioComponentInstanceNew", st)
InitializeCall(st) == Call("AudioUnitInitialize", st)
Constructed == last.op = "new"

\* C13: when discovery finds no component, construction returns
\* NoMatchingDefaultAudioUnitFound having issued discovery alone; when
\* instantiation fails it returns the native status as an error having issued
\* discovery and instantiation alone; in neither case is initialize called
\* or an instance left behind.
C13_ConstructionStopsAtFirstFailure ==
    Constructed =>
        /\ (Len(calls) >= 1 /\ calls[1] = FindNext("err")) =>
              /\ calls = <<FindNext("err")>>
              /\ ~last.ok /\ last.err = "NoMatchingDefaultAudioUnitFound"
              /\ pc = "failed" /\ life = "NoInstance"
        /\ last.err = "NoMatchingDefaultAudioUnitFound" => calls = <<FindNext("err")>>
        /\ (Len(calls) >= 2 /\ calls[2] = InstanceNew("err")) =>
              /\ calls = <<FindNext("noErr"), InstanceNew("err")>>
              /\ ~last.ok /\ last.err = "Native" /\ last.status = "err"
              /\ pc = "failed" /\ life = "NoInstance"
        /\ Count(calls, "AudioUnitInitialize") > 0 =>
              /\ calls[1] = FindNext("noErr")
              /\ calls[2] = InstanceNew("noErr")

\* Construction failed at instantiation.
C13_Witness ==
    /\ Constructed
    /\ calls = <<FindNext("noErr"), InstanceNew("err")>>
    /\ last.err = "Native"

\* C14: a construction that succeeded has issued discovery, instantiation
\* and initialize, once each and in that order, all successful, and hands
\* out a facade whose unit is Initialized (not Started) and whose callback
\* slots are both empty, with nothing registered at the native layer.
C14_SuccessfulConstruction ==
    (Constructed /\ last.ok) =>
        /\ calls = <<FindNext("noErr"), InstanceNew("noErr"), InitializeCall("noErr")>>
        /\ pc = "alive"
        /\ life = "Initialized"
        /\ maybe_render_callback = None /\ maybe_input_callback = None
        /\ renderReg = None /\ inputReg = None
        /\ allocated = 0

\* A facade was just constructed.
C14_Witness ==
    /\ Constructed
    /\ last.ok
    /\ pc = "alive"
    /\ Len(calls) = 3

\* C15: when construction has returned an error, no native instance that
\* it instantiated remains undisposed.
C15_FailedConstructionLeavesNoInstance ==
    pc = "failed" => Gone(life)

\* The state a unit is left in by one successful stop.
Stopped(l) == IF l = "Started" THEN "Initialized" ELSE l

\* C16: start and stop are offered in every state of a live facade, each
\* call issues exactly one native call of its own and returns that call's
\* status; a successful start leaves the unit Started and a successful stop
\* leaves it stopped whether or not it already was, a failed one leaves it
\* as it was; neither touches the callback slots or the properties.
C16_StartStopForward ==
    /\ [](/\ pc = "alive" => ENABLED Start /\ ENABLED Stop
          /\ last.op = "start" =>
                /\ calls = <<Call("AudioOutputUnitStart", last.status)>>
                /\ last.ok = (last.status = "noErr")
                /\ life = IF last.ok THEN "Started" ELSE last.before
          /\ last.op = "stop" =>
                /\ calls = <<Call("AudioOutputUnitStop", last.status)>>
                /\ last.ok = (last.status = "noErr")
                /\ life = IF last.ok THEN Stopped(last.before) ELSE last.before)
    /\ [][(Start \/ Stop) =>
            UNCHANGED <<maybe_render_callback, maybe_input_callback, props>>]_vars

\* start succeeded on a unit that was already Started.
C16_Witness ==
    /\ last.op = "start"
    /\ last.ok
    /\ last.before = "Started"
    /\ life = "Started"

SampleRateKey == <<"sample_rate", Scope_Input>>
StreamFormatKey(scope) == <<"stream_format", scope>>
StreamFormatTriple(scope) == <<kAudioUnitProperty_StreamFormat, scope, Element_Output>>
\* The descriptors some StreamFormat encodes, and the format encoded.
Supported(d) == \E f \in StreamFormats : to_asbd(f) = d
FormatOf(d) == CHOOSE f \in StreamFormats : to_asbd(f) = d

\* C17: once set_sample_rate(r) has succeeded, sample_rate() returns r;
\* once set_stream_format(f, scope) has succeeded, stream_format(scope)
\* returns f, for every scope; a read that fails then fails with the native
\* error only; output_stream_format and input_stream_format are
\* stream_format of Scope::Output and Scope::Input.
C17_AccessorsReadBack ==
    /\ setByCaller[SampleRateKey] # NoData =>
          /\ \A storage \in [1..NativeSize -> Rates] :
                /\ sample_rate(props, life, FALSE, storage).ret.ok
                /\ sample_rate(props, life, FALSE, storage).ret.value
                      = setByCaller[SampleRateKey]
          /\ last.op = "sample_rate" =>
                IF last.ok THEN last.value = setByCaller[SampleRateKey]
                ELSE last.err = "Native"
    /\ \A scope \in FormatScopes :
          setByCaller[StreamFormatKey(scope)] # NoData =>
              /\ \A storage \in [1..NativeSize -> NativeFormats] :
                    /\ stream_format(props, life, scope, FALSE, storage).ret.ok
                    /\ stream_format(props, life, scope, FALSE, storage).ret.value
                          = setByCaller[StreamFormatKey(scope)]
              /\ (last.op = "stream_format" /\ last.scope = scope) =>
                    IF last.ok THEN last.value = setByCaller[StreamFormatKey(scope)]
                    ELSE last.err = "Native"
    /\ \A fault \in BOOLEAN, storage \in [1..NativeSize -> NativeFormats] :
          /\ output_stream_format(props, life, fault, storage)
                = stream_format(props, life, Scope_Output, fault, storage)
          /\ input_stream_format(props, life, fault, storage)
                = stream_format(props, life, Scope_Input, fault, storage)

\* stream_format(Scope::Output) returned the interleaved multi-channel
\* format just written to that scope, while the input scope holds another.
C17_Witness ==
    /\ last.op = "stream_format"
    /\ last.ok
    /\ last.scope = Scope_Output
    /\ setByCaller[StreamFormatKey(Scope_Output)] = last.value
    /\ last.value[1].interleaved
    /\ last.value[1].channels = MaxChannels
    /\ props[StreamFormatTriple(Scope_Input)] # props[StreamFormatTriple(Scope_Output)]

\* C18: stream_format(scope) issues one native get; when that fails it
\* returns the native error and no conversion is attempted; when it succeeds
\* a conversion follows, which gives UnsupportedStreamFormat for a
\* descriptor no StreamFormat encodes and the encoded format otherwise; the
\* properties, the lifecycle state and the callback slots stay as they were.
C18_StreamFormatOutcomes ==
    /\ [](last.op = "stream_format" =>
            /\ Len(calls) >= 1
            /\ calls[1] = Call("AudioUnitGetProperty", last.status)
            /\ last.status # "noErr" =>
                  /\ Len(calls) = 1
                  /\ ~last.ok
                  /\ last.err = "Native"
            /\ last.status = "noErr" =>
                  /\ calls = <<calls[1], Call("from_asbd", "")>>
                  /\ StreamFormatTriple(last.scope) \in DOMAIN props
                  /\ IF Supported(props[StreamFormatTriple(last.scope)][1])
                     THEN /\ last.ok
                          /\ last.value =
                                <<FormatOf(props[StreamFormatTriple(last.scope)][1])>>
                     ELSE /\ ~last.ok
                          /\ last.err = "UnsupportedStreamFormat")
    /\ [][(StreamFormat \/ OutputStreamFormat \/ InputStreamFormat) =>
            UNCHANGED <<props, life, cbVars>>]_vars

\* The native get succeeded on a descriptor outside the supported set.
C18_Witness ==
    /\ last.op = "stream_format"
    /\ last.status = "noErr"
    /\ last.err = "UnsupportedStreamFormat"
    /\ Len(calls) = 2

====
